---- MODULE Spec2Model ----
(***************************************************************************)
(* A model of agentverse_sdk/server.py: the AgentServer object, its        *)
(* webhook and health routes, the custom endpoints it registers with the   *)
(* web framework, and its start-up and outbound-send operations.           *)
(*                                                                         *)
(* Each operation of the class is one action; an HTTP request is handled   *)
(* by one action (one request at a time).  The external collaborators      *)
(* (envelope parser, identity creation, directory registration, outbound   *)
(* send, the handlers' and callbacks' own behaviour) are inputs chosen     *)
(* nondeterministically from small sets.  The variable `last` holds what   *)
(* the most recent operation was given, what it answered and the calls it  *)
(* made on its collaborators, in order.                                    *)
(***************************************************************************)
EXTENDS Integers, Sequences, FiniteSets, TLC

\* ---------------------------------------------------------------- bounds
MaxQueue == 2          \* webhook messages accepted in one run
MaxHandlerRegs == 2    \* register_handler calls in one run
MaxEndpointRegs == 2   \* register_endpoint calls in one run
MaxThreads == 2        \* successful start() calls in one run
MaxSent == 2           \* outbound-send calls in one run

\* ------------------------------------------------------- values and inputs
None == [type |-> "NoneType"]

Senders == {"agent1", "agent2"}
Payloads == {"q1", "q2"}

\* A handler or callback supplied by the application: who it is and what it
\* does when called (return a JSON value, return a value the JSON encoder
\* rejects, or raise).
Callbacks == [id : {"cb1", "cb2"}, does : {"returns", "raises"}]
EndpointCallbacks ==
    {[id |-> "cb1", does |-> "returns"],
     [id |-> "cb2", does |-> "raises"],
     [id |-> "cb3", does |-> "returns_object"]}

\* Calling a callback with one argument.
Call(cb, arg) ==
    [raised |-> cb.does = "raises",
     message |-> IF cb.does = "raises" THEN "callback failed" ELSE "",
     value |-> [by |-> cb.id, arg |-> arg, json |-> cb.does = "returns"]]

\* What one operation did to its collaborators.
Event(ev, who, what) == [ev |-> ev, who |-> who, what |-> what]

Calls(trace, ev) == SelectSeq(trace, LAMBDA e : e.ev = ev)

Range(seq) == {seq[i] : i \in 1..Len(seq)}

\* The bodies a client may POST to the webhook: bytes that are not UTF-8,
\* text that is no envelope, an envelope whose signature does not verify,
\* and a valid envelope carrying a sender and a payload.
RawBodies ==
    [kind : {"valid", "bad_signature"}, sender : Senders, payload : Payloads]
      \cup [kind : {"not_utf8", "not_envelope"}, sender : {""}, payload : {""}]

\* request.get_data().decode("utf-8") followed by parse_message_from_agent:
\* either a message (sender, payload) or an exception with its text.
parse_message_from_agent(raw) ==
    CASE raw.kind = "not_utf8" ->
           [raised |-> TRUE, error |-> "'utf-8' codec can't decode byte", message |-> None]
      [] raw.kind = "not_envelope" ->
           [raised |-> TRUE, error |-> "validation error for Envelope", message |-> None]
      [] raw.kind = "bad_signature" ->
           [raised |-> TRUE, error |-> "Invalid envelope signature", message |-> None]
      [] OTHER ->
           [raised |-> FALSE, error |-> "",
            message |-> [type |-> "AgentMessage", sender |-> raw.sender, payload |-> raw.payload]]

VARIABLES
    agent_key,          \* self.agent_key ("" when missing)
    agentverse_token,   \* self.agentverse_token ("" when missing)
    identity,           \* self.identity: None or an Identity
    directory,          \* addresses the external directory has registered
    threads,            \* listener threads spawned by start()
    sent,               \* calls made to the outbound-send primitive
    message_queue,      \* self.message_queue
    response_handlers,  \* self.response_handlers: sender -> handler
    url_map,            \* the framework's rules for custom endpoints
    view_functions,     \* the framework's endpoint name -> view function
    parsed,             \* messages the envelope parser has returned, in order
    handler_regs,       \* the register_handler calls made, in order
    endpoint_regs,      \* the register_endpoint calls made, in order
    last                \* the most recent operation: input, answer, calls made

vars == <<agent_key, agentverse_token, identity, directory, threads, sent,
          message_queue, response_handlers, url_map, view_functions,
          parsed, handler_regs, endpoint_regs, last>>

lifecycleVars == <<identity, directory, threads, sent>>
dispatchVars == <<message_queue, response_handlers, parsed, handler_regs>>
endpointVars == <<url_map, view_functions, endpoint_regs>>

Op(op, args, status, body, trace) ==
    [op |-> op, args |-> args, status |-> status, body |-> body, trace |-> trace]

\* AgentServer.__init__(config, metadata, agent_key, agentverse_token)
Construct(key, token) ==
    /\ agent_key = key
    /\ agentverse_token = token
    /\ identity = None
    /\ directory = {}
    /\ threads = 0
    /\ sent = <<>>
    /\ message_queue = <<>>
    /\ response_handlers = <<>>
    /\ url_map = <<>>
    /\ view_functions = <<>>
    /\ parsed = <<>>
    /\ handler_regs = <<>>
    /\ endpoint_regs = <<>>
    /\ last = Op("__init__", None, "returned", None, <<>>)

\* A server constructed with any key and token, present or missing.
Init == \E key \in {"", "seed"}, token \in {"", "token"} : Construct(key, token)

\* The server main() constructs: it returns before constructing one when a
\* key is missing.
InitMain == Construct("seed", "token")

\* ------------------------------------------------------- handler table
\* A variant that keeps the handler already registered for the sender.
register_handler_keep_first(handlers, agent_address, handler) ==
    [s \in DOMAIN handlers \cup {agent_address} |->
        IF s \in DOMAIN handlers THEN handlers[s] ELSE handler]

\* self.response_handlers[agent_address] = handler
register_handler(handlers, agent_address, handler) ==
    [s \in DOMAIN handlers \cup {agent_address} |->
        IF s = agent_address THEN handler ELSE handlers[s]]

RegisterHandler ==
    /\ Len(handler_regs) < MaxHandlerRegs
    /\ \E s \in Senders, cb \in Callbacks :
        /\ response_handlers' = register_handler(response_handlers, s, cb)
        /\ handler_regs' = Append(handler_regs, [sender |-> s, handler |-> cb])
        /\ last' = Op("register_handler", [sender |-> s, handler |-> cb],
                      "returned", None, <<>>)
    /\ UNCHANGED <<message_queue, parsed>>
    /\ UNCHANGED <<agent_key, agentverse_token>>
    /\ UNCHANGED lifecycleVars
    /\ UNCHANGED endpointVars

\* ------------------------------------------------------------- webhook
\* A variant without the inner try: what the handler raises leaves it.
webhook_handlers_uncaught(handlers, message) ==
    IF message.sender \in DOMAIN handlers
    THEN LET c == Call(handlers[message.sender], message.payload) IN
         [trace |-> <<Event("call", handlers[message.sender], message.payload)>>,
          escaped |-> c.raised,
          error |-> c.message,
          log |-> IF c.raised THEN "" ELSE "Handler executed"]
    ELSE [trace |-> <<>>, escaped |-> FALSE, error |-> "", log |-> ""]

\* The inner try of the webhook: look the sender up, call its handler with
\* the payload, log what it returns, log and swallow what it raises.
\* `escaped` tells whether an exception leaves the inner try: none does.
webhook_handlers(handlers, message) ==
    IF message.sender \in DOMAIN handlers
    THEN LET c == Call(handlers[message.sender], message.payload) IN
         [trace |-> <<Event("call", handlers[message.sender], message.payload)>>,
          escaped |-> FALSE,
          error |-> "",
          log |-> IF c.raised THEN "Error in message handler" ELSE "Handler executed"]
    ELSE [trace |-> <<>>, escaped |-> FALSE, error |-> "", log |-> ""]

\* A variant whose error response lacks the 500 status.
webhook_error_without_status(raw, handlers) ==
    LET p == parse_message_from_agent(raw) IN
    IF p.raised
    THEN [status |-> 200, body |-> [error |-> p.error], trace |-> <<>>]
    ELSE LET put == <<Event("put", "message_queue", p.message)>>
             h == webhook_handlers(handlers, p.message)
         IN  [status |-> 200, body |-> [status |-> "success"], trace |-> put \o h.trace]

\* A variant that puts the message on the queue only after a handler ran.
webhook_put_in_handler_branch(raw, handlers) ==
    LET p == parse_message_from_agent(raw) IN
    IF p.raised
    THEN [status |-> 500, body |-> [error |-> p.error], trace |-> <<>>]
    ELSE LET put == <<Event("put", "message_queue", p.message)>>
             h == webhook_handlers(handlers, p.message)
         IN  [status |-> 200, body |-> [status |-> "success"],
              trace |-> IF h.trace = <<>> THEN <<>> ELSE h.trace \o put]

\* The webhook view: the response and, in order, the calls it made (the put
\* on the queue, the handler).  The outer try turns every exception into a
\* 500 response carrying its text.
webhook(raw, handlers) ==
    LET p == parse_message_from_agent(raw) IN
    IF p.raised
    THEN [status |-> 500, body |-> [error |-> p.error], trace |-> <<>>]
    ELSE LET put == <<Event("put", "message_queue", p.message)>>
             h == webhook_handlers(handlers, p.message)
         IN  IF h.escaped
             THEN [status |-> 500, body |-> [error |-> h.error], trace |-> put \o h.trace]
             ELSE [status |-> 200, body |-> [status |-> "success"], trace |-> put \o h.trace]

\* The messages a trace puts on the queue, in order.
Puts(trace) == [i \in 1..Len(Calls(trace, "put")) |-> Calls(trace, "put")[i].what]

Webhook ==
    /\ Len(message_queue) < MaxQueue
    /\ \E raw \in RawBodies :
        LET r == webhook(raw, response_handlers)
            p == parse_message_from_agent(raw)
        IN  /\ message_queue' = message_queue \o Puts(r.trace)
            /\ parsed' = IF p.raised THEN parsed ELSE Append(parsed, p.message)
            /\ last' = Op("webhook", raw, r.status, r.body, r.trace)
    /\ UNCHANGED <<response_handlers, handler_regs>>
    /\ UNCHANGED <<agent_key, agentverse_token>>
    /\ UNCHANGED lifecycleVars
    /\ UNCHANGED endpointVars

NextDispatch == RegisterHandler \/ Webhook

SpecDispatch == InitMain /\ [][NextDispatch]_vars

\* ------------------------------------------------------ custom endpoints
ApiPrefix == <<"/", "a", "p", "i", "/">>

\* Paths an application may give to register_endpoint (as characters).
GivenPaths ==
    {<<"f", "o", "o">>,
     <<"/", "c", "u", "s", "t", "o", "m">>}

List(items) == [type |-> "list", items |-> items]

\* The `methods` argument: omitted (None), an empty list, or a list.
MethodArgs == {None, List(<<>>), List(<<"GET">>)}

\* Python truthiness of the `methods` argument.
Falsy(v) == v = None \/ (v.type = "list" /\ v.items = <<>>)

\* path.startswith('/')
startswith_slash(path) == Len(path) > 0 /\ Head(path) = "/"

\* A variant that prefixes every path.
endpoint_path_always_prefixed(path) == ApiPrefix \o path

\* if not path.startswith('/'): path = f'/api/{path}'
endpoint_path(path) ==
    IF startswith_slash(path) THEN path ELSE ApiPrefix \o path

\* methods = methods or ["POST"]
endpoint_methods(methods) ==
    IF Falsy(methods) THEN <<"POST">> ELSE methods.items

\* Flask.add_url_rule as called by app.route(path, methods=methods)(view):
\* the endpoint name is the view function's __name__; the rule is added to
\* the map; a different function already held under that name is refused
\* with an AssertionError, otherwise the function is stored under it.
add_url_rule(map, views, path, methods, view) ==
    LET rule == [rule |-> path, methods |-> methods, endpoint |-> view.name] IN
    IF view.name \in DOMAIN views /\ views[view.name] # view
    THEN [url_map |-> Append(map, rule), view_functions |-> views,
          raised |-> TRUE,
          error |-> "View function mapping is overwriting an existing endpoint function"]
    ELSE [url_map |-> Append(map, rule),
          view_functions |->
              [n \in DOMAIN views \cup {view.name} |->
                  IF n = view.name THEN view ELSE views[n]],
          raised |-> FALSE, error |-> ""]

\* register_endpoint: normalise the path, default the methods, build the
\* closure endpoint_wrapper (a new function object on every call) and route
\* it.
register_endpoint(map, views, path, handler, methods, serial) ==
    LET bound == endpoint_path(path)
        wrapper == [name |-> "endpoint_wrapper", handler |-> handler,
                    path |-> bound, object |-> serial]
    IN  add_url_rule(map, views, bound, endpoint_methods(methods), wrapper)

RegisterEndpoint ==
    /\ Len(endpoint_regs) < MaxEndpointRegs
    /\ \E path \in GivenPaths, cb \in EndpointCallbacks, methods \in MethodArgs :
        LET r == register_endpoint(url_map, view_functions, path, cb, methods,
                                   Len(endpoint_regs) + 1)
            args == [path |-> path, handler |-> cb, methods |-> methods]
            status == IF r.raised THEN "raised" ELSE "returned"
        IN  /\ url_map' = r.url_map
            /\ view_functions' = r.view_functions
            /\ endpoint_regs' = Append(endpoint_regs,
                    [path |-> path, handler |-> cb, methods |-> methods,
                     status |-> status])
            /\ last' = Op("register_endpoint", args, status,
                          IF r.raised THEN [error |-> r.error] ELSE None, <<>>)
    /\ UNCHANGED <<agent_key, agentverse_token>>
    /\ UNCHANGED lifecycleVars
    /\ UNCHANGED dispatchVars

\* Requests a client may send to a custom path.
RequestPaths ==
    {<<"/", "a", "p", "i", "/", "f", "o", "o">>,
     <<"/", "c", "u", "s", "t", "o", "m">>}
RequestMethods == {"GET", "POST"}
Requests ==
    [path : RequestPaths, method : RequestMethods,
     content_type : {"application/json", "text/plain"},
     text : {"{\"query\": \"q1\"}", "{bad"}]

EmptyDict == {}

\* request.is_json
is_json(req) == req.content_type = "application/json"

\* request.get_json(): the decoded body, or BadRequest when it does not parse.
get_json(req) ==
    IF req.text = "{\"query\": \"q1\"}"
    THEN [raised |-> FALSE, error |-> "", data |-> {<<"query", "q1">>}]
    ELSE [raised |-> TRUE,
          error |-> "400 Bad Request: Failed to decode JSON object",
          data |-> EmptyDict]

\* jsonify(result): the encoder rejects what is not JSON-serialisable.
jsonify(value) ==
    IF value.json
    THEN [raised |-> FALSE, error |-> "", body |-> value]
    ELSE [raised |-> TRUE, error |-> "Object is not JSON serializable", body |-> None]

\* A variant without the try: the framework answers for what is raised.
endpoint_wrapper_uncaught(view, req) ==
    LET j == IF is_json(req) THEN get_json(req)
             ELSE [raised |-> FALSE, error |-> "", data |-> EmptyDict]
    IN  IF j.raised
        THEN [status |-> 400, body |-> [error |-> "Bad Request"], trace |-> <<>>]
        ELSE LET c == Call(view.handler, j.data)
                 called == <<Event("call", view.handler, j.data)>>
                 out == jsonify(c.value)
             IN  IF c.raised \/ out.raised
                 THEN [status |-> 500, body |-> [error |-> "Internal Server Error"],
                       trace |-> called]
                 ELSE [status |-> 200, body |-> out.body, trace |-> called]

\* The closure endpoint_wrapper of one registration, run on one request.
endpoint_wrapper(view, req) ==
    LET j == IF is_json(req) THEN get_json(req)
             ELSE [raised |-> FALSE, error |-> "", data |-> EmptyDict]
    IN  IF j.raised
        THEN [status |-> 500, body |-> [error |-> j.error], trace |-> <<>>]
        ELSE LET c == Call(view.handler, j.data)
                 called == <<Event("call", view.handler, j.data)>>
             IN  IF c.raised
                 THEN [status |-> 500, body |-> [error |-> c.message], trace |-> called]
                 ELSE LET out == jsonify(c.value) IN
                      IF out.raised
                      THEN [status |-> 500, body |-> [error |-> out.error], trace |-> called]
                      ELSE [status |-> 200, body |-> out.body, trace |-> called]

\* The framework's routing: the first rule whose path and method match; 405
\* when only the path matches, 404 when nothing does.
MatchingRules(map, req) ==
    {i \in 1..Len(map) : map[i].rule = req.path /\ req.method \in Range(map[i].methods)}

dispatch_request(map, views, req) ==
    LET hits == MatchingRules(map, req) IN
    IF hits # {}
    THEN LET i == CHOOSE k \in hits : \A m \in hits : k <= m
         IN  endpoint_wrapper(views[map[i].endpoint], req)
    ELSE IF \E i \in 1..Len(map) : map[i].rule = req.path
         THEN [status |-> 405, body |-> [error |-> "Method Not Allowed"], trace |-> <<>>]
         ELSE [status |-> 404, body |-> [error |-> "Not Found"], trace |-> <<>>]

EndpointRequest ==
    /\ \E req \in Requests :
        LET r == dispatch_request(url_map, view_functions, req) IN
        last' = Op("request", req, r.status, r.body, r.trace)
    /\ UNCHANGED endpointVars
    /\ UNCHANGED <<agent_key, agentverse_token>>
    /\ UNCHANGED lifecycleVars
    /\ UNCHANGED dispatchVars

NextEndpoint == RegisterEndpoint \/ EndpointRequest

SpecEndpoint == InitMain /\ [][NextEndpoint]_vars

\* ------------------------------------------------- identity and start-up
Str(v) == [type |-> "str", value |-> v]

\* Identity.from_seed(agent_key, 0): the identity is a function of the seed.
from_seed(key) == [type |-> "Identity", address |-> Str("agent1q-" \o key)]

\* What the directory service may answer to a registration.
RegistrationOutcomes == {"registered", "raises"}

\* What the outbound-send primitive may do.
SendOutcomes == {"sent", "raises"}

\* _init_agent: check the keys, create the identity and store it in
\* self.identity, register it with the directory; any exception is logged
\* and raised again.
init_agent(key, token, ident, dir, outcome) ==
    IF key = "" \/ token = ""
    THEN [raised |-> TRUE, error |-> "Missing required API keys",
          identity |-> ident, directory |-> dir, trace |-> <<>>]
    ELSE LET created == from_seed(key)
             calls == <<Event("from_seed", "Identity", key),
                        Event("register_with_agentverse", created, token)>>
         IN  IF outcome = "raises"
             THEN [raised |-> TRUE, error |-> "registration failed",
                   identity |-> created, directory |-> dir, trace |-> calls]
             ELSE [raised |-> FALSE, error |-> "",
                   identity |-> created,
                   directory |-> dir \cup {created.address}, trace |-> calls]

\* A variant that starts the listener thread before _init_agent().
start_thread_first(key, token, ident, dir, n, outcome) ==
    LET a == init_agent(key, token, ident, dir, outcome)
        spawn == <<Event("thread.start", "run_server", n + 1)>>
    IN  [status |-> IF a.raised THEN "raised" ELSE "returned",
         body |-> IF a.raised THEN [error |-> a.error] ELSE [thread |-> n + 1],
         identity |-> a.identity, directory |-> a.directory,
         trace |-> spawn \o a.trace]

\* start(): _init_agent() first; then the listener thread is created and
\* started and the thread object is returned.
start(key, token, ident, dir, n, outcome) ==
    LET a == init_agent(key, token, ident, dir, outcome) IN
    IF a.raised
    THEN [status |-> "raised", body |-> [error |-> a.error],
          identity |-> a.identity, directory |-> a.directory,
          trace |-> a.trace]
    ELSE [status |-> "returned", body |-> [thread |-> n + 1],
          identity |-> a.identity, directory |-> a.directory,
          trace |-> Append(a.trace, Event("thread.start", "run_server", n + 1))]

Start ==
    /\ threads < MaxThreads
    /\ \E outcome \in RegistrationOutcomes :
        LET r == start(agent_key, agentverse_token, identity, directory, threads, outcome)
        IN  /\ identity' = r.identity
            /\ directory' = r.directory
            /\ threads' = threads + Len(Calls(r.trace, "thread.start"))
            /\ last' = Op("start", [registration |-> outcome], r.status, r.body, r.trace)
    /\ UNCHANGED sent
    /\ UNCHANGED <<agent_key, agentverse_token>>
    /\ UNCHANGED dispatchVars
    /\ UNCHANGED endpointVars

\* The health view.
health_check(ident) ==
    [status |-> IF ident # None THEN "healthy" ELSE "initializing",
     agent_address |-> IF ident # None THEN ident.address ELSE None]

HealthCheck ==
    /\ last' = Op("health_check", None, 200, health_check(identity), <<>>)
    /\ UNCHANGED lifecycleVars
    /\ UNCHANGED <<agent_key, agentverse_token>>
    /\ UNCHANGED dispatchVars
    /\ UNCHANGED endpointVars

\* A variant without the identity check.
send_message_unguarded(ident, recipient, payload, outcome) ==
    [status |-> "returned", body |-> [value |-> outcome = "sent"],
     trace |-> <<Event("send_message_to_agent", ident,
                       [recipient |-> recipient, payload |-> payload])>>]

\* send_message: False at once without an identity; otherwise one call of
\* send_message_to_agent, True when it returns and False when it raises.
send_message(ident, recipient, payload, outcome) ==
    IF ident = None
    THEN [status |-> "returned", body |-> [value |-> FALSE], trace |-> <<>>]
    ELSE [status |-> "returned", body |-> [value |-> outcome = "sent"],
          trace |-> <<Event("send_message_to_agent", ident,
                            [recipient |-> recipient, payload |-> payload])>>]

SendMessage ==
    /\ Len(sent) < MaxSent
    /\ \E recipient \in Senders, payload \in Payloads, outcome \in SendOutcomes :
        LET r == send_message(identity, recipient, payload, outcome) IN
        /\ sent' = sent \o r.trace
        /\ last' = Op("send_message",
                      [recipient |-> recipient, payload |-> payload, outcome |-> outcome],
                      r.status, r.body, r.trace)
    /\ UNCHANGED <<identity, directory, threads>>
    /\ UNCHANGED <<agent_key, agentverse_token>>
    /\ UNCHANGED dispatchVars
    /\ UNCHANGED endpointVars

NextLifecycle == Start \/ HealthCheck \/ SendMessage

SpecLifecycle == Init /\ [][NextLifecycle]_vars

\* ------------------------------------------------------ the whole server
Next ==
    \/ RegisterHandler
    \/ Webhook
    \/ RegisterEndpoint
    \/ EndpointRequest
    \/ Start
    \/ HealthCheck
    \/ SendMessage

Spec == Init /\ [][Next]_vars

\* The three parts share no variable but `last`: the claims about the
\* webhook are checked under SpecDispatch, those about custom endpoints
\* under SpecEndpoint and those about start-up, health and outbound send
\* under SpecLifecycle.

\* ================================================================ claims
LastWebhookDecoded ==
    last.op = "webhook" /\ ~parse_message_from_agent(last.args).raised

LastWebhookRejected ==
    last.op = "webhook" /\ parse_message_from_agent(last.args).raised

HandlerCalls == Calls(last.trace, "call")

\* C1: a webhook request whose body the envelope parser decodes is answered
\* {"status": "success"} with HTTP 200, whether the sender has no handler, a
\* handler that returns or a handler that raises.
C1_DecodedEnvelopeAnswersSuccess ==
    LastWebhookDecoded =>
        /\ last.status = 200
        /\ last.body = [status |-> "success"]

C1_Witness ==
    /\ LastWebhookDecoded
    /\ last.args.sender \in DOMAIN response_handlers
    /\ response_handlers[last.args.sender].does = "raises"
    /\ HandlerCalls # <<>>
    /\ last.status = 200

\* C2: a webhook request whose body the envelope parser fails to decode is
\* answered HTTP 500 with a body whose only field, error, is not empty; no
\* message is put on the queue and no handler is called.
C2_RejectedEnvelopeAnswers500 ==
    /\ [](LastWebhookRejected =>
            /\ last.status = 500
            /\ DOMAIN last.body = {"error"}
            /\ last.body.error # ""
            /\ last.trace = <<>>)
    /\ [][(last'.op = "webhook" /\ parse_message_from_agent(last'.args).raised)
            => message_queue' = message_queue]_vars

C2_Witness ==
    /\ LastWebhookRejected
    /\ last.args.kind = "bad_signature"
    /\ last.args.sender \in DOMAIN response_handlers
    /\ last.status = 500
    /\ message_queue # <<>>

\* C3 (as claimed): the identity is absent until registration with the
\* directory has succeeded; the health view answers "initializing" with a
\* null address as long as no registration has succeeded, also after a
\* start() whose registration failed, and "healthy" with an address after.
C3_HealthyOnlyAfterRegistration ==
    last.op = "health_check" =>
        IF directory = {}
        THEN /\ identity = None
             /\ last.body = [status |-> "initializing", agent_address |-> None]
        ELSE /\ identity # None
             /\ last.body.status = "healthy"
             /\ last.body.agent_address # None

\* C4: send_message without an identity returns False and makes no call of
\* the outbound-send primitive; with an identity it makes exactly one call,
\* with that identity, the recipient and the payload, and returns True when
\* the call returns and False when it raises; it never raises itself.
C4_SendMessageFailsFastOrDelegates ==
    last.op = "send_message" =>
        /\ last.status = "returned"
        /\ IF identity = None
           THEN /\ last.body.value = FALSE
                /\ last.trace = <<>>
           ELSE /\ last.trace =
                     <<Event("send_message_to_agent", identity,
                             [recipient |-> last.args.recipient,
                              payload |-> last.args.payload])>>
                /\ last.body.value = (last.args.outcome = "sent")

C4_Witness ==
    /\ last.op = "send_message"
    /\ identity # None
    /\ last.args.outcome = "raises"
    /\ last.body.value = FALSE
    /\ Len(sent) = 2

\* The register_handler calls made for one sender, in order.
RegsFor(sender) == SelectSeq(handler_regs, LAMBDA r : r.sender = sender)

\* C5: for a decoded webhook message, when the sender matches a registered
\* key the handler most recently registered for that sender is called
\* exactly once, with the decoded payload, and no other handler is called;
\* when no key matches no handler is called.
C5_LatestHandlerCalledOnce ==
    LastWebhookDecoded =>
        LET regs == RegsFor(last.args.sender) IN
        IF regs = <<>>
        THEN HandlerCalls = <<>>
        ELSE HandlerCalls =
                <<Event("call", regs[Len(regs)].handler, last.args.payload)>>

C5_Witness ==
    /\ LastWebhookDecoded
    /\ Len(RegsFor(last.args.sender)) = 2
    /\ RegsFor(last.args.sender)[1].handler # RegsFor(last.args.sender)[2].handler
    /\ Len(HandlerCalls) = 1

\* C6: start() starts the listener thread only after the identity was
\* created and the registration succeeded; when the key or the token is
\* missing or the registration raises, start() raises and that call starts
\* no thread.
C6_ListenerOnlyAfterRegistration ==
    /\ threads > 0 => (identity # None /\ identity.address \in directory)
    /\ last.op = "start" =>
        /\ (agent_key = "" \/ agentverse_token = ""
              \/ last.args.registration = "raises")
            => (last.status = "raised" /\ Calls(last.trace, "thread.start") = <<>>)
        /\ last.status = "returned" =>
            /\ Len(last.trace) = 3
            /\ last.trace[1].ev = "from_seed"
            /\ last.trace[2].ev = "register_with_agentverse"
            /\ last.trace[3].ev = "thread.start"
            /\ last.args.registration = "registered"

C6_Witness ==
    /\ last.op = "start"
    /\ last.status = "raised"
    /\ agent_key # "" /\ agentverse_token # ""
    /\ threads = 1

\* The registrations the framework accepted for the path a request names.
AcceptedFor(path) ==
    SelectSeq(endpoint_regs,
              LAMBDA r : r.status = "returned"
                         /\ path = (IF Head(r.path) = "/" THEN r.path
                                    ELSE <<"/", "a", "p", "i", "/">> \o r.path))

\* The last operation was a request routed to the view of a registered path.
LastRequestServed ==
    /\ last.op = "request"
    /\ last.status \notin {404, 405}
    /\ AcceptedFor(last.args.path) # <<>>

JsonDeclared == last.args.content_type = "application/json"

\* C7 (as claimed): a request to a registered custom endpoint calls the
\* registered callback exactly once, with the parsed JSON body or the empty
\* mapping when the request carries no JSON, and answers the callback's
\* result with HTTP 200, or HTTP 500 {"error": message} when it raises.
C7_CallbackAlwaysCalledOnce ==
    LastRequestServed =>
        LET cb == AcceptedFor(last.args.path)[1].handler IN
        /\ Len(HandlerCalls) = 1
        /\ HandlerCalls[1].who = cb
        /\ IF cb.does = "raises"
           THEN last.status = 500 /\ last.body = [error |-> "callback failed"]
           ELSE last.status = 200 /\ last.body.by = cb.id

\* C7 (amended): when the request declares JSON and its body does not
\* parse, the callback is not called and the answer is HTTP 500 with the
\* parse error; otherwise the callback is called exactly once with the
\* parsed body (the empty mapping when the request declares no JSON), and
\* the answer is its result with HTTP 200, or HTTP 500 {"error": message}
\* when it raises or when its result cannot be encoded as JSON.
C7_CallbackCalledOnceUnlessBodyUnparsable ==
    LastRequestServed =>
        LET cb == AcceptedFor(last.args.path)[1].handler
            good == last.args.text = "{\"query\": \"q1\"}"
            data == IF JsonDeclared THEN {<<"query", "q1">>} ELSE {}
        IN  IF JsonDeclared /\ ~good
            THEN /\ HandlerCalls = <<>>
                 /\ last.status = 500
                 /\ DOMAIN last.body = {"error"}
            ELSE /\ HandlerCalls = <<Event("call", cb, data)>>
                 /\ CASE cb.does = "returns" ->
                           /\ last.status = 200
                           /\ last.body.by = cb.id
                           /\ last.body.arg = data
                      [] cb.does = "raises" ->
                           /\ last.status = 500
                           /\ last.body = [error |-> "callback failed"]
                      [] OTHER ->
                           /\ last.status = 500
                           /\ DOMAIN last.body = {"error"}

C7_Witness ==
    /\ LastRequestServed
    /\ JsonDeclared
    /\ last.args.text = "{\"query\": \"q1\"}"
    /\ AcceptedFor(last.args.path)[1].handler.does = "raises"
    /\ last.status = 500

\* C8: register_endpoint adds its rule at /api/<name> when the given path
\* does not start with "/" and at the given path when it does, with the
\* methods ["POST"] when none are given; a registration the framework
\* accepts binds the callback there.
C8_PathNormalisedMethodsDefaulted ==
    last.op = "register_endpoint" =>
        LET rule == url_map[Len(url_map)]
            given == last.args.path
        IN  /\ Len(url_map) = Len(endpoint_regs)
            /\ (given = <<"f", "o", "o">>
                  => rule.rule = <<"/", "a", "p", "i", "/", "f", "o", "o">>)
            /\ (Head(given) = "/" => rule.rule = given)
            /\ (Head(given) # "/" => rule.rule = <<"/", "a", "p", "i", "/">> \o given)
            /\ (last.args.methods = None => rule.methods = <<"POST">>)
            /\ (last.status = "returned"
                  => view_functions[rule.endpoint].handler = last.args.handler)

C8_Witness ==
    /\ last.op = "register_endpoint"
    /\ last.status = "returned"
    /\ last.args.path = <<"f", "o", "o">>
    /\ last.args.methods = None
    /\ url_map[1].rule = <<"/", "a", "p", "i", "/", "f", "o", "o">>

\* The registrations made name distinct paths, each with its own callback.
DistinctPaths ==
    \A i, j \in 1..Len(endpoint_regs) :
        i # j => /\ endpoint_regs[i].path # endpoint_regs[j].path
                 /\ endpoint_regs[i].handler # endpoint_regs[j].handler

\* C9 (as claimed): after register_endpoint was called for distinct paths,
\* each with its own callback, every registration has succeeded and a
\* request routed to one of the paths calls the callback registered for
\* that path.
C9_EveryRegistrationKeepsItsCallback ==
    DistinctPaths =>
        /\ \A i \in 1..Len(endpoint_regs) : endpoint_regs[i].status = "returned"
        /\ (last.op = "request" /\ last.status \notin {404, 405}) =>
              \E i \in 1..Len(endpoint_regs) :
                  /\ url_map[i].rule = last.args.path
                  /\ \A k \in 1..Len(HandlerCalls) :
                        HandlerCalls[k].who = endpoint_regs[i].handler

IsPrefix(s, t) == Len(s) <= Len(t) /\ SubSeq(t, 1, Len(s)) = s

\* C10: the queue holds exactly the messages the parser decoded, each once
\* and in that order; a decoded message is put on the queue before any
\* handler is called, whether or not a handler exists or raises; a failed
\* decode leaves the queue as it was; no step removes an element.
C10_QueueIsTheDecodedMessages ==
    /\ [](/\ message_queue = parsed
          /\ LastWebhookDecoded =>
                /\ last.trace # <<>>
                /\ last.trace[1] =
                     Event("put", "message_queue",
                           parse_message_from_agent(last.args).message)
                /\ Len(Calls(last.trace, "put")) = 1
                /\ message_queue[Len(message_queue)] = last.trace[1].what
          /\ LastWebhookRejected => Calls(last.trace, "put") = <<>>)
    /\ [][IsPrefix(message_queue, message_queue')]_vars

C10_Witness ==
    /\ Len(message_queue) = 2
    /\ message_queue[1] # message_queue[2]
    /\ LastWebhookDecoded
    /\ last.args.sender \notin DOMAIN response_handlers
    /\ response_handlers # <<>>

====
